---- MODULE Spec2Model ----
(***************************************************************************)
(* State-machine model of the report builder of multi_agent.py: the plan   *)
(* generator, the approval node, the per-section research loop             *)
(* (generate_queries -> search_web -> write_section), the two fan-out      *)
(* supersteps with their joins, gather_completed_sections, the final       *)
(* section writers and compile_final_report; and of the search helpers of  *)
(* tools1.py (tavily_search_async, tavily_search).                         *)
(***************************************************************************)
EXTENDS Integers, Sequences, FiniteSets, TLC

\* ------------------------------------------------------------------ bounds
MaxSections == 3     \* longest plan the planner returns in the model
MaxResearch == 2     \* most sections with research set in such a plan
MaxDepth == 2        \* largest max_search_depth drawn at start
MaxQueries == 2      \* longest query batch given to tavily_search_async
MaxResults == 2      \* most results one query returns
MaxCompleted == 2    \* longest completed_sections given to the compiler alone

\* ------------------------------------------------------------ value sets
Names == {"A", "B"}
None == "None"
Urls == {"u1", "u2"}
QueryTexts == {"q1", "q2"}

SeqsUpTo(S, n) == UNION {[1..k -> S] : k \in 0..n}

Range(s) == {s[k] : k \in 1..Len(s)}

\* The sequences that list every element of the finite set S exactly once.
Perms(S) == {p \in [1..Cardinality(S) -> S] : Range(p) = S}

\* Section of state.py as the planner returns it (content not yet written).
Section == [name : Names, research : BOOLEAN]

\* A writer whose text is set in the unit's first round only.
TextOfFirstRound(by, round) == [by |-> by, round |-> 1]

\* The text a writer call returns. The model gateway may return any text; a
\* text is identified by the call that produced it, the round-th writer call
\* of the unit of section by, so that the texts of different calls differ.
Text(by, round) == [by |-> by, round |-> round]

\* section.content before any writer has set it.
NoContent == Text(0, 0)

\* A section as a unit emits it: the planned section with its content.
WrittenSection ==
    [name : Names, research : BOOLEAN,
     content : {NoContent} \cup {Text(by, 1) : by \in 1..MaxCompleted}]

\* The plans the planner may return: names may repeat (nothing in the code
\* makes them unique). The first section is named "A": every plan is such a
\* plan up to exchanging the two names, which no node looks into.
Plans ==
    {p \in SeqsUpTo(Section, MaxSections) :
        /\ Cardinality({k \in 1..Len(p) : p[k].research}) <= MaxResearch
        /\ Len(p) > 0 => p[1].name = "A"}

VARIABLES
    phase,                          \* position of the top-level graph
    max_search_depth,               \* Configuration.max_search_depth of the run
    sections,                       \* ReportState["sections"]
    feedback_on_report_plan,        \* ReportState["feedback_on_report_plan"]
    completed_sections,             \* ReportState["completed_sections"]
    report_sections_from_research,  \* ReportState["report_sections_from_research"]
    final_report,                   \* ReportState["final_report"]
    research_tasks,                 \* the Sends of human_feedback_node (section indices)
    final_tasks,                    \* the Sends of initiate_final_section_writing_edge
    pc,                             \* per section index: the node its unit is at
    search_iterations,              \* SectionState["search_iterations"] per unit
    search_queries,                 \* SectionState["search_queries"] per unit
    source_str,                     \* SectionState["source_str"] per unit
    content,                        \* section.content of the unit's section
    context,                        \* report_sections_from_research handed to a final writer
    grade,                          \* the grade the grader returned in the unit's last
                                    \* write_section_node execution ("none": it did not)
    searchRounds,                   \* number of search_web_node executions per unit
    writeRounds,                    \* number of write_section_node executions per unit
    queryFailed,                    \* a query of the unit's search round just made has failed
    follow_up_queries,              \* feedback_result.follow_up_queries of the fail that sent
                                    \* the unit back to search_web (<<>>: there was none)
    planCalls,                      \* number of generate_report_plan executions
    planFailed,                     \* generate_report_plan raised
    returned,                       \* what run_graph_for_streamlit returned
    search_in,                      \* a batch given to tavily_search_async on its own
    search_docs,                    \* what tavily_search_async returned for it
    search_text,                    \* what tavily_search returned for it
    search_stage                    \* position of the stand-alone search call

vars == <<phase, max_search_depth, sections, feedback_on_report_plan,
          completed_sections, report_sections_from_research, final_report,
          research_tasks, final_tasks, pc, search_iterations, search_queries,
          source_str, content, context, grade, searchRounds, writeRounds,
          queryFailed, follow_up_queries, planCalls, planFailed, returned, search_in,
          search_docs, search_text,
          search_stage>>

reportVars == <<sections, feedback_on_report_plan, completed_sections,
                report_sections_from_research, final_report, research_tasks,
                final_tasks, planCalls, planFailed, returned>>

unitVars == <<pc, search_iterations, search_queries, source_str, content,
              context, grade, searchRounds, writeRounds, queryFailed,
              follow_up_queries>>

searchVars == <<search_in, search_docs, search_text, search_stage>>

Idx == 1..Len(sections)

\* ------------------------------------------------------- tools1.py: search
\* What the Tavily client does for one query: it raises (ok = FALSE) or it
\* returns a response with an optional answer and a list of results (a result
\* is identified by its url).
Failed == [ok |-> FALSE, answer |-> None, results |-> <<>>]

\* A response one of whose results carries no url (result.get('url') is None).
NoUrlResponse == [ok |-> TRUE, answer |-> None, results |-> <<None, "u1">>]

Outcomes(maxResults) ==
    {Failed, NoUrlResponse}
    \cup [ok : {TRUE}, answer : {None, "a"}, results : SeqsUpTo(Urls, maxResults)]

\* tools1.py tavily_search_async: asyncio.gather without return_exceptions
\* raises as soon as one search raises; the except branch then returns one
\* error object per query, each with empty results.
tavily_search_async(queries, outcomes) ==
    IF \E k \in 1..Len(queries) : ~outcomes[k].ok
    THEN [k \in 1..Len(queries) |->
            [query |-> queries[k], error |-> "e", results |-> <<>>, answer |-> None]]
    ELSE [k \in 1..Len(queries) |->
            [query |-> queries[k], error |-> None,
             results |-> outcomes[k].results, answer |-> outcomes[k].answer]]

\* The header lines tavily_search writes while walking the responses: an
\* error line for a response with an error, else an answer line if it has one.
RECURSIVE HeaderLines(_)
HeaderLines(responses) ==
    IF responses = <<>> THEN <<>>
    ELSE LET r == Head(responses)
             line == IF r.error # None
                     THEN <<[tag |-> "Error for query", query |-> r.query, text |-> r.error]>>
                     ELSE IF r.answer # None
                     THEN <<[tag |-> "Direct Answer for query", query |-> r.query, text |-> r.answer]>>
                     ELSE <<>>
         IN line \o HeaderLines(Tail(responses))

\* The results of the responses without an error, in response order.
RECURSIVE AllResults(_)
AllResults(responses) ==
    IF responses = <<>> THEN <<>>
    ELSE (IF Head(responses).error # None THEN <<>> ELSE Head(responses).results)
         \o AllResults(Tail(responses))

\* A walk over the results that keeps every result that has a url.
RECURSIVE KeepEveryResult(_, _)
KeepEveryResult(results, seen) ==
    IF results = <<>> THEN <<>>
    ELSE IF Head(results) = None THEN KeepEveryResult(Tail(results), seen)
    ELSE <<Head(results)>> \o KeepEveryResult(Tail(results), seen)

\* unique_results_by_url (lines 221-224): a result is kept if it has a url
\* and that url was not seen before, so the first occurrence of every url
\* stays, in that order.
RECURSIVE UniqueByUrl(_, _)
UniqueByUrl(results, seen) ==
    IF results = <<>> THEN <<>>
    ELSE IF Head(results) = None \/ Head(results) \in seen
    THEN UniqueByUrl(Tail(results), seen)
    ELSE <<Head(results)>> \o UniqueByUrl(Tail(results), seen \cup {Head(results)})

NoValidResults ==
    [kind |-> "No valid search results or answers found", lines |-> <<>>, sources |-> <<>>]

\* tools1.py tavily_search on the responses of tavily_search_async.
FormatSearch(responses) ==
    LET unique == UniqueByUrl(AllResults(responses), {})
        anyAnswer == \E k \in 1..Len(responses) :
                        responses[k].error = None /\ responses[k].answer # None
    IN IF unique = <<>> /\ ~anyAnswer
       THEN NoValidResults
       ELSE [kind |-> "Search results", lines |-> HeaderLines(responses), sources |-> unique]

tavily_search(queries, outcomes) == FormatSearch(tavily_search_async(queries, outcomes))

NoSource == [kind |-> "unset", lines |-> <<>>, sources |-> <<>>]

\* tools1.py format_sections: one entry per section, numbered from 1; a
\* section without content shows '[Not yet written]' (written = FALSE).
format_sections(secs) ==
    [k \in 1..Len(secs) |->
        [idx |-> k, name |-> secs[k].name, research |-> secs[k].research,
         written |-> secs[k].content # NoContent,
         content |-> secs[k].content]]

\* --------------------------------------------- multi_agent.py: the compiler
NoReport == [set |-> FALSE, parts |-> <<>>]

\* The body of a block: the text of a section, or one of the two placeholders.
Body(kind, name, text) == [kind |-> kind, name |-> name, text |-> text]

\* A lookup that falls back to the last completed section for a missing name.
ContentForNoDefault(completed, name) ==
    LET hits == {k \in 1..Len(completed) : completed[k].name = name}
        at == IF hits = {} THEN Len(completed)
              ELSE CHOOSE k \in hits : \A j \in hits : j <= k
    IN IF at = 0 \/ completed[at].content = NoContent
       THEN Body("is None", name, NoContent)
       ELSE Body("content", name, completed[at].content)

\* completed_content_map.get(name, ...): the dict comprehension keeps, for a
\* name, the content of the last completed section with that name; the
\* default is the not-found placeholder, and a content of None gives the
\* is-None placeholder.
ContentFor(completed, name) ==
    LET hits == {k \in 1..Len(completed) : completed[k].name = name}
    IN IF hits = {}
       THEN Body("not found/completed", name, NoContent)
       ELSE LET last == CHOOSE k \in hits : \A j \in hits : j <= k
            IN IF completed[last].content = NoContent
               THEN Body("is None", name, NoContent)
               ELSE Body("content", name, completed[last].content)

\* final_report_parts, joined in order: one "## name", body block per planned section.
CompileReport(planned, completed) ==
    [set |-> TRUE,
     parts |-> [k \in 1..Len(planned) |->
                  [header |-> planned[k].name,
                   body |-> ContentFor(completed, planned[k].name)]]]

\* ------------------------------------------------- multi_agent.py: routing
\* human_feedback_node: the Sends to build_section_with_web_research, one per
\* section with research set, in plan order (as section indices).
RECURSIVE SelectIdx(_, _, _)
SelectIdx(secs, k, flag) ==
    IF k > Len(secs) THEN <<>>
    ELSE (IF secs[k].research = flag THEN <<k>> ELSE <<>>) \o SelectIdx(secs, k + 1, flag)

\* Sends that leave out the test of s.research.
ResearchSendsUnfiltered(secs) == [k \in 1..Len(secs) |-> k]

ResearchSends(secs) == SelectIdx(secs, 1, TRUE)

\* An edge that sends the first section without research only.
initiate_final_section_writing_edge_first_only(secs) ==
    LET all == SelectIdx(secs, 1, FALSE)
    IN IF all = <<>> THEN <<>> ELSE <<all[1]>>

\* initiate_final_section_writing_edge: one Send per section without research.
initiate_final_section_writing_edge(secs) == SelectIdx(secs, 1, FALSE)

\* A router that goes to the final writers whatever the plan is.
router_always_to_final_writers(secs) ==
    [goto |-> "write_final_sections", sends |-> initiate_final_section_writing_edge(secs)]

\* router_after_gather_sections: the Sends, or the name of the next node.
router_after_gather_sections(secs) ==
    IF \E k \in 1..Len(secs) : ~secs[k].research
    THEN [goto |-> "write_final_sections", sends |-> initiate_final_section_writing_edge(secs)]
    ELSE [goto |-> "compile_final_report", sends |-> <<>>]

\* A loop that a pass ends only at the depth bound.
EndsLoopAtBoundOnly(g, iterations, depth) == g = "pass" /\ iterations >= depth

\* A loop that goes one round past the depth bound.
EndsLoopPastBound(g, iterations, depth) == g = "pass" \/ iterations > depth

\* write_section_node line 274: the loop ends on a pass or at the depth bound.
EndsLoop(g, iterations, depth) == g = "pass" \/ iterations >= depth

\* The section a unit emits in its completed_sections update.
Emitted(i) == [name |-> sections[i].name, research |-> sections[i].research,
               content |-> content[i]]

\* The completed_sections reducer of ReportState: an update is appended.
AddCompleted(old, update) == old \o update

\* --------------------------------------------------------------- the run
\* Inputs of the model gateway and of the search provider in a run.
GenQueries == {<<"q1", "q2">>}
FollowUps == {<<>>, <<"q1">>}
Feedbacks == [grade : {"pass", "fail"}, follow_up_queries : FollowUps]

\* What the provider does for a query of a unit's round-th search: it fails,
\* or it returns one result, whose url is that of the round.
RoundUrls == <<"u1", "u2", "u3", "u4", "u5", "u6">>
RoundUrl(round) == RoundUrls[round]
RunOutcomes(round) ==
    {Failed, [ok |-> TRUE, answer |-> None, results |-> <<RoundUrl(round)>>]}

NotReturned == [done |-> FALSE, report |-> NoReport]

SuperstepPhases == {"build_section_with_web_research", "write_final_sections"}

Init ==
    /\ phase = "generate_report_plan"
    /\ max_search_depth \in 0..MaxDepth
    /\ sections = <<>>
    /\ feedback_on_report_plan = <<>>
    /\ completed_sections = <<>>
    /\ report_sections_from_research = <<>>
    /\ final_report = NoReport
    /\ research_tasks = <<>>
    /\ final_tasks = <<>>
    /\ pc = <<>>
    /\ search_iterations = <<>>
    /\ search_queries = <<>>
    /\ source_str = <<>>
    /\ content = <<>>
    /\ context = <<>>
    /\ grade = <<>>
    /\ searchRounds = <<>>
    /\ writeRounds = <<>>
    /\ queryFailed = <<>>
    /\ follow_up_queries = <<>>
    /\ planCalls = 0
    /\ planFailed = FALSE
    /\ returned = NotReturned
    /\ search_in = <<>>
    /\ search_docs = <<>>
    /\ search_text = NoSource
    /\ search_stage = "off"

\* A plan generator that comes back after its structured call has raised.
PlanCallRetried ==
    /\ phase' = "generate_report_plan"
    /\ planFailed' = TRUE

\* generate_report_plan lines 112-122: when the structured planner call
\* raises (or yields no .sections), the exception leaves the node and the
\* graph: nothing catches it and the node has no retry policy.
PlanCallRaises ==
    /\ phase' = "error"
    /\ planFailed' = TRUE

\* generate_report_plan: the two model calls and the search either yield the
\* planned sections or raise, which ends the run with the error.
generate_report_plan ==
    /\ phase = "generate_report_plan"
    /\ planCalls' = planCalls + 1
    /\ \/ \E plan \in Plans :
            /\ sections' = plan
            /\ phase' = "human_feedback"
            /\ pc' = [k \in 1..Len(plan) |-> "idle"]
            /\ search_iterations' = [k \in 1..Len(plan) |-> 0]
            /\ search_queries' = [k \in 1..Len(plan) |-> <<>>]
            /\ source_str' = [k \in 1..Len(plan) |-> NoSource]
            /\ content' = [k \in 1..Len(plan) |-> NoContent]
            /\ context' = [k \in 1..Len(plan) |-> <<>>]
            /\ grade' = [k \in 1..Len(plan) |-> "none"]
            /\ searchRounds' = [k \in 1..Len(plan) |-> 0]
            /\ writeRounds' = [k \in 1..Len(plan) |-> 0]
            /\ queryFailed' = [k \in 1..Len(plan) |-> FALSE]
            /\ follow_up_queries' = [k \in 1..Len(plan) |-> <<>>]
            /\ UNCHANGED planFailed
       \/ /\ PlanCallRaises
          /\ UNCHANGED <<sections, unitVars>>
    /\ UNCHANGED <<max_search_depth, feedback_on_report_plan, completed_sections,
                   report_sections_from_research, final_report, research_tasks,
                   final_tasks, returned, searchVars>>

\* A gate that hands back a revision text.
feedback_input_revise == [type |-> "str", bool |-> FALSE, str |-> "f"]

\* human_feedback_node line 134: the approval is hard-wired.
feedback_input == [type |-> "bool", bool |-> TRUE, str |-> ""]

\* A gate that goes to the research superstep also with no Send at all.
human_feedback_node_always_sends ==
    /\ phase = "human_feedback"
    /\ research_tasks' = ResearchSends(sections)
    /\ phase' = "build_section_with_web_research"
    /\ pc' = [k \in Idx |-> IF k \in Range(research_tasks')
                            THEN "generate_queries" ELSE pc[k]]
    /\ search_iterations' = [k \in Idx |-> 0]
    /\ UNCHANGED <<max_search_depth, sections, feedback_on_report_plan,
                   completed_sections, report_sections_from_research, final_report,
                   final_tasks, search_queries, source_str, content, context, grade,
                   searchRounds, writeRounds, queryFailed, follow_up_queries,
                   planCalls, planFailed,
                   returned, searchVars>>

\* str.strip() on the texts of the model: a blank text becomes the empty one.
Strip(str) == IF str = " " THEN "" ELSE str

\* A gate that takes every truthy input for an approval.
DecisionByTruth(fi) ==
    IF (fi.type = "bool" /\ fi.bool) \/ (fi.type = "str" /\ fi.str # "")
    THEN "approve"
    ELSE "unsupported"

\* human_feedback_node lines 136, 150, 153: which of the three branches an
\* input takes.
Decision(fi) ==
    IF fi.type = "bool" /\ fi.bool THEN "approve"
    ELSE IF fi.type = "str" /\ Strip(fi.str) # "" THEN "revise"
    ELSE "unsupported"

\* The feedback_on_report_plan reducer of ReportState: an update is appended.
AddFeedback(old, update) == old \o update

\* human_feedback_node on the input fi.
human_feedback(fi) ==
    /\ phase = "human_feedback"
    /\ IF Decision(fi) = "approve"
       THEN LET tasks == ResearchSends(sections)
            IN /\ research_tasks' = tasks
               /\ IF tasks # <<>>
                  THEN /\ phase' = "build_section_with_web_research"
                       /\ pc' = [k \in Idx |-> IF k \in Range(tasks)
                                               THEN "generate_queries" ELSE pc[k]]
                       /\ search_iterations' = [k \in Idx |-> 0]
                  ELSE /\ phase' = "gather_completed_sections"
                       /\ UNCHANGED <<pc, search_iterations>>
               /\ UNCHANGED feedback_on_report_plan
       ELSE IF Decision(fi) = "revise"
       THEN /\ phase' = "generate_report_plan"
            /\ feedback_on_report_plan' = AddFeedback(feedback_on_report_plan, <<fi.str>>)
            /\ UNCHANGED <<research_tasks, pc, search_iterations>>
       ELSE /\ phase' = "error"
            /\ UNCHANGED <<feedback_on_report_plan, research_tasks, pc, search_iterations>>
    /\ UNCHANGED <<max_search_depth, sections, completed_sections,
                   report_sections_from_research, final_report, final_tasks,
                   search_queries, source_str, content, context, grade,
                   searchRounds, writeRounds, queryFailed, follow_up_queries,
                   planCalls, planFailed, returned, searchVars>>

\* human_feedback_node: the input is the hard-wired one.
human_feedback_node == human_feedback(feedback_input)

\* A SectionState that the units share: what one unit drops is gone for all.
DroppedForAll(f, i, empty) == [k \in DOMAIN f |-> empty]

\* What is left of a unit's SectionState once its sub-graph has ended, with
\* END or with an exception: section_builder_graph (line 359) has the output
\* schema SectionOutputState, so search_queries and source_str are dropped.
Dropped(f, i, empty) == [f EXCEPT ![i] = empty]

\* A unit runs as long as no unit of its superstep has raised: the first
\* exception ends the superstep and leaves the graph (propagate_error).
Running(i, node) ==
    /\ pc[i] = node
    /\ \A j \in Idx : pc[j] # "failed"

\* generate_queries_node of the unit of section i: the model returns the
\* queries, or the call raises.
generate_queries_node(i) ==
    /\ phase = "build_section_with_web_research"
    /\ Running(i, "generate_queries")
    /\ \/ \E qs \in GenQueries :
            /\ search_queries' = [search_queries EXCEPT ![i] = qs]
            /\ pc' = [pc EXCEPT ![i] = "search_web"]
       \/ /\ pc' = [pc EXCEPT ![i] = "failed"]
          /\ UNCHANGED search_queries
    /\ UNCHANGED <<phase, max_search_depth, reportVars, search_iterations, source_str,
                   content, context, grade, searchRounds, writeRounds, queryFailed,
                   follow_up_queries,
                   searchVars>>

\* A search node that counts a round only when no query of it has failed.
search_web_node_counts_clean_rounds(i) ==
    /\ phase = "build_section_with_web_research"
    /\ Running(i, "search_web")
    /\ \E outs \in [1..Len(search_queries[i]) -> RunOutcomes(searchRounds[i] + 1)] :
          /\ source_str' = [source_str EXCEPT ![i] = tavily_search(search_queries[i], outs)]
          /\ search_iterations' =
                [search_iterations EXCEPT
                    ![i] = IF \E k \in DOMAIN outs : ~outs[k].ok THEN @ ELSE @ + 1]
          /\ searchRounds' = [searchRounds EXCEPT ![i] = @ + 1]
          /\ queryFailed' = [queryFailed EXCEPT ![i] = \E k \in DOMAIN outs : ~outs[k].ok]
          /\ pc' = [pc EXCEPT ![i] = "write_section"]
          /\ UNCHANGED <<search_queries, follow_up_queries>>
    /\ UNCHANGED <<phase, max_search_depth, reportVars, content,
                   context, grade, writeRounds, searchVars>>

\* A search node out of which the failure of a query raises.
search_web_node_query_raises(i) ==
    /\ phase = "build_section_with_web_research"
    /\ Running(i, "search_web")
    /\ \E outs \in [1..Len(search_queries[i]) -> RunOutcomes(searchRounds[i] + 1)] :
          /\ queryFailed' = [queryFailed EXCEPT ![i] = \E k \in DOMAIN outs : ~outs[k].ok]
          /\ IF \E k \in DOMAIN outs : ~outs[k].ok
             THEN /\ pc' = [pc EXCEPT ![i] = "failed"]
                  /\ search_queries' = Dropped(search_queries, i, <<>>)
                  /\ source_str' = Dropped(source_str, i, NoSource)
                  /\ follow_up_queries' = Dropped(follow_up_queries, i, <<>>)
                  /\ UNCHANGED <<search_iterations, searchRounds>>
             ELSE /\ source_str' = [source_str EXCEPT ![i] = tavily_search(search_queries[i], outs)]
                  /\ search_iterations' = [search_iterations EXCEPT ![i] = @ + 1]
                  /\ searchRounds' = [searchRounds EXCEPT ![i] = @ + 1]
                  /\ pc' = [pc EXCEPT ![i] = "write_section"]
                  /\ UNCHANGED <<search_queries, follow_up_queries>>
    /\ UNCHANGED <<phase, max_search_depth, reportVars, content,
                   context, grade, writeRounds, searchVars>>

\* A search node that adds the round's result to the source text it had.
search_web_node_accumulates(i) ==
    /\ phase = "build_section_with_web_research"
    /\ Running(i, "search_web")
    /\ \/ \E outs \in [1..Len(search_queries[i]) -> RunOutcomes(searchRounds[i] + 1)] :
            /\ LET new == tavily_search(search_queries[i], outs)
               IN source_str' =
                    [source_str EXCEPT
                        ![i] = [kind |-> new.kind,
                                lines |-> @.lines \o new.lines,
                                sources |-> @.sources \o new.sources]]
            /\ search_iterations' = [search_iterations EXCEPT ![i] = @ + 1]
            /\ searchRounds' = [searchRounds EXCEPT ![i] = @ + 1]
            /\ queryFailed' = [queryFailed EXCEPT ![i] = \E k \in DOMAIN outs : ~outs[k].ok]
            /\ pc' = [pc EXCEPT ![i] = "write_section"]
            /\ UNCHANGED <<search_queries, follow_up_queries>>
       \/ /\ pc' = [pc EXCEPT ![i] = "failed"]
          /\ search_queries' = Dropped(search_queries, i, <<>>)
          /\ source_str' = Dropped(source_str, i, NoSource)
          /\ follow_up_queries' = Dropped(follow_up_queries, i, <<>>)
          /\ UNCHANGED <<search_iterations, searchRounds, queryFailed>>
    /\ UNCHANGED <<phase, max_search_depth, reportVars, content,
                   context, grade, writeRounds, searchVars>>

\* search_web_node of the unit of section i: one batch through tavily_search,
\* the result replaces source_str, search_iterations grows by one; or the
\* search call raises outside the batch's own error handling (the client's
\* constructor, tools1.py line 132, is outside the try of lines 150-165).
search_web_node(i) ==
    /\ phase = "build_section_with_web_research"
    /\ Running(i, "search_web")
    /\ \/ \E outs \in [1..Len(search_queries[i]) -> RunOutcomes(searchRounds[i] + 1)] :
            /\ source_str' = [source_str EXCEPT ![i] = tavily_search(search_queries[i], outs)]
            /\ search_iterations' = [search_iterations EXCEPT ![i] = @ + 1]
            /\ searchRounds' = [searchRounds EXCEPT ![i] = @ + 1]
            /\ queryFailed' = [queryFailed EXCEPT ![i] = \E k \in DOMAIN outs : ~outs[k].ok]
            /\ pc' = [pc EXCEPT ![i] = "write_section"]
            /\ UNCHANGED <<search_queries, follow_up_queries>>
       \/ /\ pc' = [pc EXCEPT ![i] = "failed"]
          /\ search_queries' = Dropped(search_queries, i, <<>>)
          /\ source_str' = Dropped(source_str, i, NoSource)
          /\ follow_up_queries' = Dropped(follow_up_queries, i, <<>>)
          /\ UNCHANGED <<search_iterations, searchRounds, queryFailed>>
    /\ UNCHANGED <<phase, max_search_depth, reportVars, content,
                   context, grade, writeRounds, searchVars>>

\* A write node that keeps the queries it had when the grader gives none.
write_section_node_keeps_queries(i) ==
    /\ phase = "build_section_with_web_research"
    /\ Running(i, "write_section")
    /\ queryFailed' = [queryFailed EXCEPT ![i] = FALSE]
    /\ \E fb \in Feedbacks :
          /\ content' = [content EXCEPT ![i] = Text(i, writeRounds[i] + 1)]
          /\ grade' = [grade EXCEPT ![i] = fb.grade]
          /\ writeRounds' = [writeRounds EXCEPT ![i] = @ + 1]
          /\ IF EndsLoop(fb.grade, search_iterations[i], max_search_depth)
             THEN /\ pc' = [pc EXCEPT ![i] = "done"]
                  /\ search_queries' = Dropped(search_queries, i, <<>>)
                  /\ source_str' = Dropped(source_str, i, NoSource)
                  /\ follow_up_queries' = Dropped(follow_up_queries, i, <<>>)
             ELSE /\ pc' = [pc EXCEPT ![i] = "search_web"]
                  /\ search_queries' =
                        [search_queries EXCEPT
                            ![i] = IF fb.follow_up_queries = <<>> THEN @
                                   ELSE fb.follow_up_queries]
                  /\ follow_up_queries' = [follow_up_queries EXCEPT ![i] = fb.follow_up_queries]
                  /\ UNCHANGED source_str
    /\ UNCHANGED <<phase, max_search_depth, reportVars, search_iterations,
                   context, searchRounds, searchVars>>

\* A write node that sends a failed section back to generate_queries.
write_section_node_regenerates(i) ==
    /\ phase = "build_section_with_web_research"
    /\ Running(i, "write_section")
    /\ queryFailed' = [queryFailed EXCEPT ![i] = FALSE]
    /\ \E fb \in Feedbacks :
          /\ content' = [content EXCEPT ![i] = Text(i, writeRounds[i] + 1)]
          /\ grade' = [grade EXCEPT ![i] = fb.grade]
          /\ writeRounds' = [writeRounds EXCEPT ![i] = @ + 1]
          /\ IF EndsLoop(fb.grade, search_iterations[i], max_search_depth)
             THEN /\ pc' = [pc EXCEPT ![i] = "done"]
                  /\ search_queries' = Dropped(search_queries, i, <<>>)
                  /\ source_str' = Dropped(source_str, i, NoSource)
                  /\ follow_up_queries' = Dropped(follow_up_queries, i, <<>>)
             ELSE /\ pc' = [pc EXCEPT ![i] = "generate_queries"]
                  /\ search_queries' = [search_queries EXCEPT ![i] = fb.follow_up_queries]
                  /\ follow_up_queries' = [follow_up_queries EXCEPT ![i] = fb.follow_up_queries]
                  /\ UNCHANGED source_str
    /\ UNCHANGED <<phase, max_search_depth, reportVars, search_iterations,
                   context, searchRounds, searchVars>>

\* A write node that raises when the depth bound is reached with a fail.
write_section_node_bound_raises(i) ==
    /\ phase = "build_section_with_web_research"
    /\ Running(i, "write_section")
    /\ queryFailed' = [queryFailed EXCEPT ![i] = FALSE]
    /\ \E fb \in Feedbacks :
          /\ content' = [content EXCEPT ![i] = Text(i, writeRounds[i] + 1)]
          /\ grade' = [grade EXCEPT ![i] = fb.grade]
          /\ writeRounds' = [writeRounds EXCEPT ![i] = @ + 1]
          /\ IF fb.grade = "pass"
             THEN /\ pc' = [pc EXCEPT ![i] = "done"]
                  /\ search_queries' = Dropped(search_queries, i, <<>>)
                  /\ source_str' = Dropped(source_str, i, NoSource)
                  /\ follow_up_queries' = Dropped(follow_up_queries, i, <<>>)
             ELSE IF search_iterations[i] >= max_search_depth
             THEN /\ pc' = [pc EXCEPT ![i] = "failed"]
                  /\ search_queries' = Dropped(search_queries, i, <<>>)
                  /\ source_str' = Dropped(source_str, i, NoSource)
                  /\ follow_up_queries' = Dropped(follow_up_queries, i, <<>>)
             ELSE /\ pc' = [pc EXCEPT ![i] = "search_web"]
                  /\ search_queries' = [search_queries EXCEPT ![i] = fb.follow_up_queries]
                  /\ follow_up_queries' = [follow_up_queries EXCEPT ![i] = fb.follow_up_queries]
                  /\ UNCHANGED source_str
    /\ UNCHANGED <<phase, max_search_depth, reportVars, search_iterations,
                   context, searchRounds, searchVars>>

\* write_section_node of the unit of section i: the writer's text overwrites
\* section.content, the grader returns a Feedback, and line 274 decides
\* between END (the section is emitted) and another search_web round. The
\* writer call may raise (nothing written), and so may the grader call (the
\* content is written already).
write_section_node(i) ==
    /\ phase = "build_section_with_web_research"
    /\ Running(i, "write_section")
    /\ queryFailed' = [queryFailed EXCEPT ![i] = FALSE]
    /\ \/ \E fb \in Feedbacks :
            /\ content' = [content EXCEPT ![i] = Text(i, writeRounds[i] + 1)]
            /\ grade' = [grade EXCEPT ![i] = fb.grade]
            /\ writeRounds' = [writeRounds EXCEPT ![i] = @ + 1]
            /\ IF EndsLoop(fb.grade, search_iterations[i], max_search_depth)
               THEN /\ pc' = [pc EXCEPT ![i] = "done"]
                    /\ search_queries' = Dropped(search_queries, i, <<>>)
                    /\ source_str' = Dropped(source_str, i, NoSource)
                    /\ follow_up_queries' = Dropped(follow_up_queries, i, <<>>)
               ELSE /\ pc' = [pc EXCEPT ![i] = "search_web"]
                    /\ search_queries' = [search_queries EXCEPT ![i] = fb.follow_up_queries]
                    /\ follow_up_queries' = [follow_up_queries EXCEPT ![i] = fb.follow_up_queries]
                    /\ UNCHANGED source_str
       \/ /\ pc' = [pc EXCEPT ![i] = "failed"]
          /\ search_queries' = Dropped(search_queries, i, <<>>)
          /\ source_str' = Dropped(source_str, i, NoSource)
          /\ follow_up_queries' = Dropped(follow_up_queries, i, <<>>)
          /\ grade' = [grade EXCEPT ![i] = "none"]
          /\ UNCHANGED <<content, writeRounds>>
       \/ /\ content' = [content EXCEPT ![i] = Text(i, writeRounds[i] + 1)]
          /\ writeRounds' = [writeRounds EXCEPT ![i] = @ + 1]
          /\ pc' = [pc EXCEPT ![i] = "failed"]
          /\ search_queries' = Dropped(search_queries, i, <<>>)
          /\ source_str' = Dropped(source_str, i, NoSource)
          /\ follow_up_queries' = Dropped(follow_up_queries, i, <<>>)
          /\ grade' = [grade EXCEPT ![i] = "none"]
    /\ UNCHANGED <<phase, max_search_depth, reportVars, search_iterations,
                   context, searchRounds, searchVars>>

\* A join that goes on as soon as one research unit has ended.
join_research_early ==
    /\ phase = "build_section_with_web_research"
    /\ \E i \in Range(research_tasks) : pc[i] = "done"
    /\ LET ended == {i \in Range(research_tasks) : pc[i] = "done"}
       IN \E order \in Perms(ended) :
            completed_sections' =
                AddCompleted(completed_sections,
                             [k \in 1..Len(order) |-> Emitted(order[k])])
    /\ phase' = "gather_completed_sections"
    /\ UNCHANGED <<max_search_depth, sections, feedback_on_report_plan,
                   report_sections_from_research, final_report, research_tasks,
                   final_tasks, planCalls, planFailed, returned, unitVars, searchVars>>

\* A join that applies every research unit's update twice.
join_research_twice ==
    /\ phase = "build_section_with_web_research"
    /\ \A i \in Range(research_tasks) : pc[i] = "done"
    /\ \E order \in Perms(Range(research_tasks)) :
            completed_sections' =
                AddCompleted(completed_sections,
                             [k \in 1..Len(order) |-> Emitted(order[k])]
                             \o [k \in 1..Len(order) |-> Emitted(order[k])])
    /\ phase' = "gather_completed_sections"
    /\ UNCHANGED <<max_search_depth, sections, feedback_on_report_plan,
                   report_sections_from_research, final_report, research_tasks,
                   final_tasks, planCalls, planFailed, returned, unitVars, searchVars>>

\* The end of the superstep of the research units (edge
\* build_section_with_web_research -> gather_completed_sections): once every
\* unit has reached END, their completed_sections updates are applied, in
\* an order the code does not fix, and gather_completed_sections is next.
join_research ==
    /\ phase = "build_section_with_web_research"
    /\ \A i \in Range(research_tasks) : pc[i] = "done"
    /\ \E order \in Perms(Range(research_tasks)) :
            completed_sections' =
                AddCompleted(completed_sections,
                             [k \in 1..Len(order) |-> Emitted(order[k])])
    /\ phase' = "gather_completed_sections"
    /\ UNCHANGED <<max_search_depth, sections, feedback_on_report_plan,
                   report_sections_from_research, final_report, research_tasks,
                   final_tasks, planCalls, planFailed, returned, unitVars, searchVars>>

\* gather_completed_sections_node followed by its conditional edge
\* router_after_gather_sections: the context text is formatted, then either
\* the final writers are sent (each with that text) or the compiler is next.
gather_completed_sections_node ==
    /\ phase = "gather_completed_sections"
    /\ report_sections_from_research' = format_sections(completed_sections)
    /\ LET route == router_after_gather_sections(sections)
       IN /\ phase' = route.goto
          /\ final_tasks' = route.sends
          /\ pc' = [k \in Idx |-> IF k \in Range(route.sends)
                                  THEN "write_final_sections" ELSE pc[k]]
          /\ context' = [k \in Idx |-> IF k \in Range(route.sends)
                                       THEN report_sections_from_research'
                                       ELSE context[k]]
    /\ UNCHANGED <<max_search_depth, sections, feedback_on_report_plan,
                   completed_sections, final_report, research_tasks, planCalls,
                   planFailed, returned, search_iterations, search_queries, source_str,
                   content, grade, searchRounds, writeRounds, queryFailed,
                   follow_up_queries, searchVars>>

\* write_final_sections_node of the unit of section i: one writer call, whose
\* text becomes the section's content; or the call raises.
write_final_sections_node(i) ==
    /\ phase = "write_final_sections"
    /\ Running(i, "write_final_sections")
    /\ \/ /\ content' = [content EXCEPT ![i] = Text(i, 1)]
          /\ pc' = [pc EXCEPT ![i] = "done"]
       \/ /\ pc' = [pc EXCEPT ![i] = "failed"]
          /\ UNCHANGED content
    /\ UNCHANGED <<phase, max_search_depth, reportVars, search_iterations,
                   search_queries, source_str, context, grade, searchRounds,
                   writeRounds, queryFailed, follow_up_queries, searchVars>>

\* A join that goes on to the compiler as soon as one final writer has ended.
join_final_early ==
    /\ phase = "write_final_sections"
    /\ \E i \in Range(final_tasks) : pc[i] = "done"
    /\ LET ended == {i \in Range(final_tasks) : pc[i] = "done"}
       IN \E order \in Perms(ended) :
            completed_sections' =
                AddCompleted(completed_sections,
                             [k \in 1..Len(order) |-> Emitted(order[k])])
    /\ phase' = "compile_final_report"
    /\ UNCHANGED <<max_search_depth, sections, feedback_on_report_plan,
                   report_sections_from_research, final_report, research_tasks,
                   final_tasks, planCalls, planFailed, returned, unitVars, searchVars>>

\* A join whose update replaces completed_sections instead of adding to it.
join_final_replaces ==
    /\ phase = "write_final_sections"
    /\ \A i \in Range(final_tasks) : pc[i] = "done"
    /\ \E order \in Perms(Range(final_tasks)) :
            completed_sections' = [k \in 1..Len(order) |-> Emitted(order[k])]
    /\ phase' = "compile_final_report"
    /\ UNCHANGED <<max_search_depth, sections, feedback_on_report_plan,
                   report_sections_from_research, final_report, research_tasks,
                   final_tasks, planCalls, planFailed, returned, unitVars, searchVars>>

\* The end of the superstep of the final writers (edge write_final_sections
\* -> compile_final_report).
join_final ==
    /\ phase = "write_final_sections"
    /\ \A i \in Range(final_tasks) : pc[i] = "done"
    /\ \E order \in Perms(Range(final_tasks)) :
            completed_sections' =
                AddCompleted(completed_sections,
                             [k \in 1..Len(order) |-> Emitted(order[k])])
    /\ phase' = "compile_final_report"
    /\ UNCHANGED <<max_search_depth, sections, feedback_on_report_plan,
                   report_sections_from_research, final_report, research_tasks,
                   final_tasks, planCalls, planFailed, returned, unitVars, searchVars>>

\* compile_final_report_node, then END.
compile_final_report_node ==
    /\ phase = "compile_final_report"
    /\ final_report' = CompileReport(sections, completed_sections)
    /\ phase' = "END"
    /\ UNCHANGED <<max_search_depth, sections, feedback_on_report_plan,
                   completed_sections, report_sections_from_research, research_tasks,
                   final_tasks, planCalls, planFailed, returned, unitVars, searchVars>>

\* A failed unit that is skipped: the graph goes on to the compiler.
propagate_error_swallowed ==
    /\ phase \in SuperstepPhases
    /\ \E i \in Idx : pc[i] = "failed"
    /\ phase' = "compile_final_report"
    /\ UNCHANGED <<max_search_depth, reportVars, unitVars, searchVars>>

\* A unit that raised fails its superstep: the exception leaves the graph
\* (no node has a retry policy and no edge leads on from a failed superstep).
\* With the run over, the SectionState of every unit is gone.
propagate_error ==
    /\ phase \in SuperstepPhases
    /\ \E i \in Idx : pc[i] = "failed"
    /\ phase' = "error"
    /\ search_queries' = [k \in Idx |-> <<>>]
    /\ source_str' = [k \in Idx |-> NoSource]
    /\ queryFailed' = [k \in Idx |-> FALSE]
    /\ follow_up_queries' = [k \in Idx |-> <<>>]
    /\ UNCHANGED <<max_search_depth, reportVars, pc, search_iterations, content,
                   context, grade, searchRounds, writeRounds, searchVars>>

\* run_graph_for_streamlit lines 38-60: a non-empty final_report of the final
\* state is returned; an exception, or an empty report, returns None.
run_graph_for_streamlit ==
    /\ phase \in {"END", "error"}
    /\ ~returned.done
    /\ returned' = [done |-> TRUE,
                    report |-> IF phase = "END" /\ final_report.set
                                  /\ final_report.parts # <<>>
                               THEN final_report ELSE NoReport]
    /\ UNCHANGED <<phase, max_search_depth, sections, feedback_on_report_plan,
                   completed_sections, report_sections_from_research, final_report,
                   research_tasks, final_tasks, planCalls, planFailed, unitVars,
                   searchVars>>

Next ==
    \/ generate_report_plan
    \/ human_feedback_node
    \/ \E i \in Idx : generate_queries_node(i)
    \/ \E i \in Idx : search_web_node(i)
    \/ \E i \in Idx : write_section_node(i)
    \/ join_research
    \/ gather_completed_sections_node
    \/ \E i \in Idx : write_final_sections_node(i)
    \/ join_final
    \/ compile_final_report_node
    \/ propagate_error
    \/ run_graph_for_streamlit

Spec == Init /\ [][Next]_vars

\* The event loop runs every step that is ready, and every gateway call
\* returns or raises: a step that stays enabled is eventually taken.
FairSpec == Spec /\ WF_vars(Next)

\* ------------------------------------------- the compiler on its own inputs
\* compile_final_report_node is a function of state["sections"] and
\* state["completed_sections"]: here both are drawn freely, so that planned
\* names may be missing from the completed sections.
InitCompile ==
    /\ phase = "compile_final_report"
    /\ max_search_depth = 0
    /\ sections \in Plans
    /\ completed_sections \in SeqsUpTo(WrittenSection, MaxCompleted)
    /\ feedback_on_report_plan = <<>>
    /\ report_sections_from_research = <<>>
    /\ final_report = NoReport
    /\ research_tasks = <<>>
    /\ final_tasks = <<>>
    /\ pc = [k \in Idx |-> "idle"]
    /\ search_iterations = [k \in Idx |-> 0]
    /\ search_queries = [k \in Idx |-> <<>>]
    /\ source_str = [k \in Idx |-> NoSource]
    /\ content = [k \in Idx |-> NoContent]
    /\ context = [k \in Idx |-> <<>>]
    /\ grade = [k \in Idx |-> "none"]
    /\ searchRounds = [k \in Idx |-> 0]
    /\ writeRounds = [k \in Idx |-> 0]
    /\ queryFailed = [k \in Idx |-> FALSE]
    /\ follow_up_queries = [k \in Idx |-> <<>>]
    /\ planCalls = 0
    /\ planFailed = FALSE
    /\ returned = NotReturned
    /\ search_in = <<>>
    /\ search_docs = <<>>
    /\ search_text = NoSource
    /\ search_stage = "off"

SpecCompile == InitCompile /\ [][compile_final_report_node]_vars

\* ------------------------------------------- the search batch on its own
\* A batch: the queries and what the Tavily client does for each of them.
Batches ==
    UNION {[queries : [1..n -> QueryTexts], outcomes : [1..n -> Outcomes(MaxResults)]]
           : n \in 0..MaxQueries}

InitSearch ==
    /\ phase = "search"
    /\ max_search_depth = 0
    /\ sections = <<>>
    /\ feedback_on_report_plan = <<>>
    /\ completed_sections = <<>>
    /\ report_sections_from_research = <<>>
    /\ final_report = NoReport
    /\ research_tasks = <<>>
    /\ final_tasks = <<>>
    /\ pc = <<>>
    /\ search_iterations = <<>>
    /\ search_queries = <<>>
    /\ source_str = <<>>
    /\ content = <<>>
    /\ context = <<>>
    /\ grade = <<>>
    /\ searchRounds = <<>>
    /\ writeRounds = <<>>
    /\ queryFailed = <<>>
    /\ follow_up_queries = <<>>
    /\ planCalls = 0
    /\ planFailed = FALSE
    /\ returned = NotReturned
    /\ search_in \in Batches
    /\ search_docs = <<>>
    /\ search_text = NoSource
    /\ search_stage = "called"

\* tavily_search line 198: the batch goes through tavily_search_async.
tavily_search_gather ==
    /\ search_stage = "called"
    /\ search_docs' = tavily_search_async(search_in.queries, search_in.outcomes)
    /\ search_stage' = "gathered"
    /\ UNCHANGED <<phase, max_search_depth, reportVars, unitVars, search_in, search_text>>

\* tavily_search lines 210-241: the responses are formatted.
tavily_search_format ==
    /\ search_stage = "gathered"
    /\ search_text' = FormatSearch(search_docs)
    /\ search_stage' = "formatted"
    /\ UNCHANGED <<phase, max_search_depth, reportVars, unitVars, search_in, search_docs>>

NextSearch == tavily_search_gather \/ tavily_search_format

SpecSearch == InitSearch /\ [][NextSearch]_vars

\* ------------------------------------------------- the gate on its own inputs
\* What interrupt() could hand to human_feedback_node: True, False, a text
\* (with content, empty, blank), a value of another type.
Approve == [type |-> "bool", bool |-> TRUE, str |-> ""]
Reject == [type |-> "bool", bool |-> FALSE, str |-> ""]
Revise == [type |-> "str", bool |-> FALSE, str |-> "f"]
EmptyText == [type |-> "str", bool |-> FALSE, str |-> ""]
BlankText == [type |-> "str", bool |-> FALSE, str |-> " "]
OtherType == [type |-> "other", bool |-> FALSE, str |-> ""]
GateInputs == {Approve, Reject, Revise, EmptyText, BlankText, OtherType}

\* The gate after a plan generator execution, with or without feedback given
\* before.
InitGate ==
    /\ phase = "human_feedback"
    /\ max_search_depth = 1
    /\ sections \in Plans
    /\ feedback_on_report_plan \in {<<>>, <<"f">>}
    /\ completed_sections = <<>>
    /\ report_sections_from_research = <<>>
    /\ final_report = NoReport
    /\ research_tasks = <<>>
    /\ final_tasks = <<>>
    /\ pc = [k \in Idx |-> "idle"]
    /\ search_iterations = [k \in Idx |-> 0]
    /\ search_queries = [k \in Idx |-> <<>>]
    /\ source_str = [k \in Idx |-> NoSource]
    /\ content = [k \in Idx |-> NoContent]
    /\ context = [k \in Idx |-> <<>>]
    /\ grade = [k \in Idx |-> "none"]
    /\ searchRounds = [k \in Idx |-> 0]
    /\ writeRounds = [k \in Idx |-> 0]
    /\ queryFailed = [k \in Idx |-> FALSE]
    /\ follow_up_queries = [k \in Idx |-> <<>>]
    /\ planCalls = 1 + Len(feedback_on_report_plan)
    /\ planFailed = FALSE
    /\ returned = NotReturned
    /\ search_in = <<>>
    /\ search_docs = <<>>
    /\ search_text = NoSource
    /\ search_stage = "off"

NextGate == \E fi \in GateInputs : human_feedback(fi)

SpecGate == InitGate /\ [][NextGate]_vars

\* ------------------------------------------------------------- properties
ResearchNodes == {"generate_queries", "search_web", "write_section"}

\* The research units of the run that have reached END.
Terminated(i) == i \in Range(research_tasks) /\ pc[i] = "done"

\* C1: when a research loop instance has terminated, search_iterations <=
\* max_search_depth, and if its last grade was fail, search_iterations =
\* max_search_depth, for every max_search_depth the configuration accepts.
C1_IterationsWithinDepth ==
    \A i \in Idx :
        Terminated(i) =>
            /\ search_iterations[i] <= max_search_depth
            /\ grade[i] = "fail" => search_iterations[i] = max_search_depth

\* C2: a write_section_node step in which the grader returns pass takes the
\* instance to END in that same step, whatever search_iterations is, and an
\* instance at END never performs another search round.
C2_PassEndsLoop ==
    [][\A i \in Idx :
          /\ (/\ pc[i] = "write_section"
              /\ writeRounds'[i] = writeRounds[i] + 1
              /\ grade'[i] = "pass")
             => (pc'[i] = "done" /\ searchRounds'[i] = searchRounds[i])
          /\ pc[i] = "done"
             => (pc'[i] = "done" /\ searchRounds'[i] = searchRounds[i])]_vars

\* C2 witness: an instance ended by a pass after its first search round,
\* below the depth bound.
C2_Witness ==
    \E i \in Idx :
        /\ Terminated(i)
        /\ grade[i] = "pass"
        /\ search_iterations[i] = 1
        /\ max_search_depth >= 2

\* C3: a research loop instance performs at most max_search_depth search
\* rounds and at most max_search_depth write-and-grade rounds.
C3_RoundsWithinDepth ==
    \A i \in Idx :
        /\ searchRounds[i] <= max_search_depth
        /\ writeRounds[i] <= max_search_depth

\* C3, termination part: under FairSpec every run reaches END or ends with
\* an error, whatever the grader's verdicts are.
C3_RunEnds == <>(phase \in {"END", "error"})

\* C4: a section with research = FALSE is never sent to, nor at a node of,
\* the research loop and is handled only by write_final_sections; a section
\* with research = TRUE is never sent to write_final_sections.
C4_DispatchByResearchFlag ==
    \A i \in Idx :
        /\ i \in Range(research_tasks) => sections[i].research
        /\ pc[i] \in ResearchNodes => sections[i].research
        /\ i \in Range(final_tasks) => ~sections[i].research
        /\ pc[i] = "write_final_sections" => ~sections[i].research
        /\ ~sections[i].research =>
              /\ searchRounds[i] = 0 /\ writeRounds[i] = 0
              /\ content[i] # NoContent => i \in Range(final_tasks)

\* C4 witness: a finished run whose plan has a research section and a
\* section without research, both written.
C4_Witness ==
    /\ phase = "END"
    /\ \E i, j \in Idx :
          /\ sections[i].research /\ ~sections[j].research
          /\ content[i] # NoContent /\ content[j] # NoContent

\* C5: with completed_sections covering all planned names, the compiled
\* report has one block per planned section, the k-th with the k-th planned
\* name as header and the content completed for that section as body.
C5_ReportInPlanOrder ==
    phase = "END" =>
        /\ Len(final_report.parts) = Len(sections)
        /\ \A k \in Idx :
              /\ final_report.parts[k].header = sections[k].name
              /\ final_report.parts[k].body = Body("content", sections[k].name, content[k])

NamesOf(secs) == {secs[k].name : k \in 1..Len(secs)}

\* C6: compiling with a planned name absent from completed_sections gives,
\* for that section, its header and the not-found placeholder naming it;
\* the blocks of the other sections carry content completed under their
\* name, and the node ends normally with one block per planned section.
C6_MissingSectionPlaceholder ==
    phase = "END" =>
        /\ final_report.set
        /\ Len(final_report.parts) = Len(sections)
        /\ \A k \in Idx :
              LET n == sections[k].name
                  part == final_report.parts[k]
              IN /\ part.header = n
                 /\ n \notin NamesOf(completed_sections)
                       => part.body = Body("not found/completed", n, NoContent)
                 /\ n \in NamesOf(completed_sections)
                       => \E j \in 1..Len(completed_sections) :
                             /\ completed_sections[j].name = n
                             /\ part.body =
                                  IF completed_sections[j].content = NoContent
                                  THEN Body("is None", n, NoContent)
                                  ELSE Body("content", n, completed_sections[j].content)

\* C6 witness: a compiled report for a plan with one name missing from, and
\* another present in, completed_sections.
C6_Witness ==
    /\ phase = "END"
    /\ \E i, j \in Idx :
          /\ sections[i].name \notin NamesOf(completed_sections)
          /\ sections[j].name \in NamesOf(completed_sections)

\* C7: while a final writer has been sent, every research loop instance has
\* ended and its section is in completed_sections, and the context handed to
\* the writer holds the content of every research section.
C7_FinalWritersAfterResearchJoin ==
    \A i \in Idx :
        (i \in Range(final_tasks) \/ pc[i] = "write_final_sections") =>
            \A j \in Idx :
                sections[j].research =>
                    /\ pc[j] = "done"
                    /\ \E k \in 1..Len(completed_sections) :
                          completed_sections[k] = Emitted(j)
                    /\ \E k \in 1..Len(context[i]) :
                          /\ context[i][k].name = sections[j].name
                          /\ context[i][k].written
                          /\ context[i][k].content = content[j]

\* C7 witness: a final writer at work in a run that had two research loop
\* instances, whose sections were merged in the order opposite to the plan's.
C7_Witness ==
    /\ phase = "write_final_sections"
    /\ Len(research_tasks) >= 2
    /\ Len(completed_sections) >= 2
    /\ completed_sections[1] = Emitted(research_tasks[2])
    /\ completed_sections[1] # Emitted(research_tasks[1])
    /\ \E i \in Idx : pc[i] = "write_final_sections"

\* C8: a run ends at END with final_report holding one block per planned
\* section in plan order, or with an error and no final_report; once a unit
\* has failed the compiler does not run and no report is returned.
C8_ReportOrError ==
    /\ (phase \in {"END", "error"}) \/ ENABLED Next
    /\ phase = "END" =>
          /\ final_report.set
          /\ Len(final_report.parts) = Len(sections)
          /\ \A k \in Idx : final_report.parts[k].header = sections[k].name
    /\ phase # "END" => ~final_report.set
    /\ (\E i \in Idx : pc[i] = "failed") =>
          /\ phase \notin {"compile_final_report", "END"}
          /\ ~final_report.set
          /\ ~returned.report.set
    /\ returned.done =>
          /\ phase \in {"END", "error"}
          /\ returned.report.set => (phase = "END" /\ returned.report = final_report)

\* C8 witness: a run ended by the failure of one unit after another unit
\* had finished its section, with the caller told.
C8_Witness ==
    /\ phase = "error"
    /\ returned.done
    /\ \E i, j \in Idx : pc[i] = "failed" /\ pc[j] = "done"

\* C9: when the planner call fails the run is over with the error: no unit
\* is ever sent, the plan generator ran once, and there is no report.
C9_PlanFailureAborts ==
    planFailed =>
        /\ phase = "error"
        /\ planCalls = 1
        /\ sections = <<>>
        /\ research_tasks = <<>> /\ final_tasks = <<>>
        /\ ~final_report.set
        /\ ~returned.report.set

\* C9 witness: the planner call has failed and the caller has been told.
C9_Witness == planFailed /\ returned.done

\* C10: in a batch of tavily_search_async every query that succeeded keeps
\* its results and carries no error; only a failed query carries an error.
C10_FailureIsPerQuery ==
    search_stage \in {"gathered", "formatted"} =>
        \A k \in 1..Len(search_in.queries) :
            IF search_in.outcomes[k].ok
            THEN /\ search_docs[k].error = None
                 /\ search_docs[k].results = search_in.outcomes[k].results
            ELSE search_docs[k].error # None

\* C11: a search round in which a query failed does not fail the unit nor the
\* run: the search node has returned a source text, search_iterations has
\* grown with the round, and the unit is at write_section.
C11_QueryFailureIsNotFatal ==
    \A i \in Idx :
        queryFailed[i] =>
            /\ phase = "build_section_with_web_research"
            /\ pc[i] = "write_section"
            /\ source_str[i] # NoSource
            /\ source_str[i].kind \in {"Search results",
                                       "No valid search results or answers found"}
            /\ searchRounds[i] >= 1
            /\ search_iterations[i] = searchRounds[i]

\* C11 witness: a unit at write_section after a second search round in
\* which a query failed.
C11_Witness ==
    \E i \in Idx :
        /\ queryFailed[i]
        /\ pc[i] = "write_section"
        /\ search_iterations[i] = 2

\* The places <<k, j>> of a batch of responses where url u is a result.
Occurrences(u) ==
    {p \in (1..Len(search_docs)) \X (1..(MaxResults + 1)) :
        /\ p[2] <= Len(search_docs[p[1]].results)
        /\ search_docs[p[1]].results[p[2]] = u}

PlaceBefore(p, q) == p[1] < q[1] \/ (p[1] = q[1] /\ p[2] < q[2])

FirstOccurrence(u) ==
    CHOOSE p \in Occurrences(u) : \A q \in Occurrences(u) : p = q \/ PlaceBefore(p, q)

\* C12: the text tavily_search makes of a batch of responses lists every url
\* that is a result of some response, each once, in the order of their first
\* occurrences in the responses.
C12_EachUrlListedOnce ==
    search_stage = "formatted" =>
        LET listed == search_text.sources
        IN /\ \A a, b \in 1..Len(listed) : a # b => listed[a] # listed[b]
           /\ Range(listed) = {u \in Urls : Occurrences(u) # {}}
           /\ \A a, b \in 1..Len(listed) :
                 a < b => PlaceBefore(FirstOccurrence(listed[a]), FirstOccurrence(listed[b]))

\* C12 witness: a formatted batch in which two responses have a url in
\* common and that lists two urls.
C12_Witness ==
    /\ search_stage = "formatted"
    /\ Len(search_text.sources) = 2
    /\ \E k1, k2 \in 1..Len(search_docs) :
          /\ k1 # k2
          /\ \E u \in Urls : Occurrences(u) \cap ({k1} \X (1..MaxResults)) # {}
                              /\ Occurrences(u) \cap ({k2} \X (1..MaxResults)) # {}

\* C13: in every step of a run, every name in completed_sections is the name
\* of a planned section, and completed_sections keeps every entry it had, in
\* place: it changes only by growing at the end, at the joins of the two
\* fan-out phases.
C13_CompletedNamesPlannedAndAppendOnly ==
    [][/\ NamesOf(completed_sections') \subseteq NamesOf(sections')
       /\ Len(completed_sections') >= Len(completed_sections)
       /\ SubSeq(completed_sections', 1, Len(completed_sections)) = completed_sections
       /\ completed_sections' # completed_sections => phase \in SuperstepPhases]_vars

\* C13 witness: completed_sections after it has grown at both joins.
C13_Witness ==
    /\ phase = "compile_final_report"
    /\ research_tasks # <<>> /\ final_tasks # <<>>
    /\ Len(completed_sections) = Len(research_tasks) + Len(final_tasks)
    /\ Len(completed_sections) >= 3

\* C14: no entry of completed_sections is replaced by another: in a compiled
\* report the content of every entry stands in a block under the entry's
\* name, also when two units have produced sections of the same name.
C14_NoEntryReplacedInReport ==
    phase = "END" =>
        \A k \in 1..Len(completed_sections) :
            \E b \in 1..Len(final_report.parts) :
                /\ final_report.parts[b].header = completed_sections[k].name
                /\ final_report.parts[b].body =
                      Body("content", completed_sections[k].name,
                           completed_sections[k].content)

C16_BoundReachedIsBestEffort ==
    [][\A i \in Idx :
          /\ (/\ pc[i] = "write_section"
              /\ pc'[i] # "write_section"
              /\ grade'[i] = "fail"
              /\ search_iterations[i] >= max_search_depth)
             => /\ pc'[i] = "done"
                /\ phase' = "build_section_with_web_research"
                /\ writeRounds'[i] = writeRounds[i] + 1
                /\ content'[i] = Text(i, writeRounds'[i])
                /\ Emitted(i)' = [name |-> sections[i].name, research |-> TRUE,
                                  content |-> Text(i, writeRounds'[i])]
          /\ (/\ Terminated(i) /\ grade[i] = "fail"
              /\ phase = "build_section_with_web_research"
              /\ phase' = "gather_completed_sections")
             => \E k \in 1..Len(completed_sections') :
                   completed_sections'[k] =
                       [name |-> sections[i].name, research |-> TRUE,
                        content |-> Text(i, writeRounds[i])]]_vars

\* C16 witness: a section in completed_sections whose instance ended at the
\* depth bound, after two rounds, with the grade fail.
C16_Witness ==
    /\ phase = "gather_completed_sections"
    /\ \E i \in Idx :
          /\ Terminated(i)
          /\ grade[i] = "fail"
          /\ max_search_depth = 2
          /\ search_iterations[i] = 2
          /\ \E k \in 1..Len(completed_sections) :
                completed_sections[k].content = Text(i, 2)

\* C17: with max_search_depth = 1 a research loop instance makes one search
\* round and one write-and-grade round and no more: once the grader has
\* returned, pass or fail, the instance is at END, after exactly one round
\* of each.
C17_DepthOneIsOneRound ==
    max_search_depth = 1 =>
        \A i \in Idx :
            /\ searchRounds[i] <= 1
            /\ writeRounds[i] <= 1
            /\ grade[i] \in {"pass", "fail"} => pc[i] = "done"
            /\ Terminated(i) =>
                  /\ searchRounds[i] = 1 /\ writeRounds[i] = 1
                  /\ search_iterations[i] = 1
                  /\ grade[i] \in {"pass", "fail"}

\* C17 witness: with depth 1, one instance ended by a pass and another by a
\* fail.
C17_Witness ==
    /\ max_search_depth = 1
    /\ \E i, j \in Idx :
          /\ Terminated(i) /\ grade[i] = "pass"
          /\ Terminated(j) /\ grade[j] = "fail"

\* C18: the gate always approves: generate_report_plan has run once as soon
\* as it has run at all and the flow is never back at it, nothing is ever
\* appended to feedback_on_report_plan, the gate itself never ends the run
\* with an error, and past the gate the research sections have been sent.
C18_GateAlwaysApproves ==
    /\ planCalls = (IF phase = "generate_report_plan" THEN 0 ELSE 1)
    /\ feedback_on_report_plan = <<>>
    /\ phase = "error" => (planFailed \/ \E i \in Idx : pc[i] = "failed")
    /\ (planCalls = 1 /\ ~planFailed /\ phase # "human_feedback")
          => research_tasks = ResearchSends(sections)

\* C18 witness: a run that has passed the gate and ended with its report.
C18_Witness ==
    /\ phase = "END"
    /\ planCalls = 1
    /\ research_tasks # <<>>
    /\ returned.done

\* The number of times the content of section i has been written.
Writes(i) ==
    IF sections[i].research THEN writeRounds[i]
    ELSE IF content[i] = NoContent THEN 0 ELSE 1

MaxOf(a, b) == IF a >= b THEN a ELSE b

\* C19 as stated: the content of every section is written exactly once in a
\* run, and never after the unit that handles it has exited.
C19_ContentWrittenOnce ==
    [][\A i \in Idx :
          /\ Writes(i)' <= 1
          /\ pc'[i] = "done" => Writes(i)' = 1
          /\ pc[i] \in {"done", "failed"} => content'[i] = content[i]]_vars

\* C19 amended: the content of a section is written only by the writer node
\* of the unit that handles it, once in every write-and-grade round of a
\* research loop instance (at least once, and as often as the loop has
\* rounds) and exactly once by a final writer; a finished unit's section
\* holds the text of its last round, and the content is never written after
\* the unit has exited.
C19_ContentWrittenOncePerRound ==
    [][\A i \in Idx :
          /\ content'[i] # content[i] =>
                /\ pc[i] = (IF sections[i].research THEN "write_section"
                            ELSE "write_final_sections")
                /\ Writes(i)' = Writes(i) + 1
                /\ content'[i] = [by |-> i, round |-> Writes(i)']
          /\ Writes(i)' <= (IF sections[i].research
                            THEN MaxOf(1, max_search_depth) ELSE 1)
          /\ pc'[i] = "done" =>
                (Writes(i)' >= 1 /\ content'[i] = [by |-> i, round |-> Writes(i)'])
          /\ pc[i] \in {"done", "failed"} =>
                (content'[i] = content[i] /\ Writes(i)' = Writes(i))]_vars

\* C19 witness: a finished run with a research section written in two
\* rounds and a section written once by a final writer.
C19_Witness ==
    /\ phase = "END"
    /\ \E i, j \in Idx :
          /\ sections[i].research /\ Writes(i) = 2 /\ content[i] = Text(i, 2)
          /\ ~sections[j].research /\ Writes(j) = 1

\* The Section object the unit of the i-th planned section works on: the
\* Sends (lines 138 and 347) carry "section": s, where s is the i-th entry of
\* state["sections"] itself, and no node copies it; the object is named by
\* its place in the planned list.
UnitSection(i) == i

\* The content field of the k-th entry of ReportState["sections"]: that of
\* the object, as left by the unit that works on it (section.content = ...
\* at lines 235 and 309 assigns in place).
PlannedContent(k) ==
    IF \E i \in Idx : UnitSection(i) = k
    THEN content[CHOOSE i \in Idx : UnitSection(i) = k]
    ELSE NoContent

\* C20: no write of a unit changes an entry of the planned sections list,
\* whose entries stay as generate_report_plan produced them, without
\* content, and no two units work on the same Section.
C20_PlannedSectionsUntouched ==
    /\ \A k \in Idx : PlannedContent(k) = NoContent
    /\ \A i, j \in Idx : i # j => UnitSection(i) # UnitSection(j)

\* C21: the context text of gather_completed_sections_node has one entry
\* per research section of the plan, in the order these sections have in
\* the plan, whatever the order in which the instances were merged, and no
\* entry of a section with research = FALSE.
C21_ContextInPlanOrder ==
    phase \in {"write_final_sections", "compile_final_report", "END"} =>
        LET ctx == report_sections_from_research
        IN /\ Len(ctx) = Len(research_tasks)
           /\ \A a \in 1..Len(ctx) :
                 /\ ctx[a].research
                 /\ ctx[a].content.by = research_tasks[a]
                 /\ ctx[a].name = sections[research_tasks[a]].name

AllResearch == \A k \in Idx : sections[k].research

\* C22: in a run whose plan has no section with research = FALSE no final
\* writer is ever sent: the graph is never at write_final_sections, and the
\* compiler runs on the sections of the research loop instances alone.
C22_NoFinalWritersWithoutNeed ==
    (phase # "generate_report_plan" /\ ~planFailed /\ AllResearch) =>
        /\ final_tasks = <<>>
        /\ phase # "write_final_sections"
        /\ \A i \in Idx : pc[i] # "write_final_sections"
        /\ phase \in {"compile_final_report", "END"} =>
              /\ Len(completed_sections) = Len(research_tasks)
              /\ report_sections_from_research = format_sections(completed_sections)

\* C22 witness: the compiler is next in a run whose two sections both
\* require research.
C22_Witness ==
    /\ phase = "compile_final_report"
    /\ AllResearch
    /\ Len(sections) = 2

NoResearch == \A k \in Idx : ~sections[k].research

\* C23: in a run whose plan has no section with research = TRUE no research
\* loop instance is ever sent; the gate goes to gather_completed_sections
\* with completed_sections empty, the final writers get an empty context,
\* and a run that ends normally has its report, one block per section.
C23_NoResearchSkipsToGather ==
    (phase \notin {"generate_report_plan", "human_feedback"} /\ ~planFailed /\ NoResearch) =>
        /\ research_tasks = <<>>
        /\ phase # "build_section_with_web_research"
        /\ \A i \in Idx : pc[i] \notin ResearchNodes /\ searchRounds[i] = 0
                            /\ writeRounds[i] = 0 /\ context[i] = <<>>
        /\ report_sections_from_research = <<>>
        /\ phase \in {"gather_completed_sections", "write_final_sections"}
              => completed_sections = <<>>
        /\ phase = "write_final_sections" => Range(final_tasks) = Idx
        /\ phase = "END" =>
              /\ final_report.set
              /\ Len(final_report.parts) = Len(sections)
              /\ Len(completed_sections) = Len(sections)

\* C23 witness: a run without research sections that ended with the report
\* of its two sections.
C23_Witness ==
    /\ phase = "END"
    /\ NoResearch
    /\ Len(sections) = 2
    /\ final_report.set

\* C24: final_report is set in one step only, the compiler's, which runs
\* once; when final writers have been sent, the compiler is reached only
\* with every one of them finished and its section in completed_sections.
C24_CompilerOnceAfterFinalWriters ==
    [][/\ final_report' # final_report =>
             /\ phase = "compile_final_report" /\ phase' = "END"
             /\ ~final_report.set /\ final_report'.set
       /\ phase' = "END" => final_report'.set
       /\ (phase' \in {"compile_final_report", "END"} /\ final_tasks' # <<>>) =>
             \A i \in Range(final_tasks') :
                 /\ pc'[i] = "done"
                 /\ \E k \in 1..Len(completed_sections') :
                       completed_sections'[k] =
                           [name |-> sections'[i].name, research |-> FALSE,
                            content |-> content'[i]]]_vars

\* C24 witness: a compiled report in a run that had two final writers and a
\* research loop instance.
C24_Witness ==
    /\ phase = "END"
    /\ final_report.set
    /\ Len(final_tasks) = 2
    /\ Len(research_tasks) = 1

\* C25: a research loop instance is at generate_queries once, on entry: it
\* gets there only by being sent by the gate, before any search or write
\* round, and once it has left it never comes back; the first search round
\* runs on the generated queries, every later one on follow-up queries of
\* the grader.
C25_GenerateQueriesOnce ==
    [][\A i \in Idx :
          /\ (pc'[i] = "generate_queries" /\ pc[i] # "generate_queries") =>
                (pc[i] = "idle" /\ phase = "human_feedback")
          /\ pc'[i] = "generate_queries" =>
                (searchRounds'[i] = 0 /\ writeRounds'[i] = 0 /\ search_queries'[i] = <<>>)
          /\ (pc[i] = "generate_queries" /\ pc'[i] # "generate_queries") =>
                \/ pc'[i] = "failed"
                \/ pc'[i] = "search_web" /\ search_queries'[i] \in GenQueries
          /\ (pc[i] = "search_web" /\ searchRounds'[i] = searchRounds[i] + 1) =>
                IF searchRounds[i] = 0
                THEN search_queries[i] \in GenQueries
                ELSE search_queries[i] \in FollowUps /\ grade[i] = "fail"]_vars

\* C25 witness: an instance in its second search round made on the
\* grader's follow-up queries.
C25_Witness ==
    \E i \in Idx :
        /\ pc[i] = "write_section"
        /\ searchRounds[i] = 2
        /\ search_queries[i] = <<"q1">>

\* C26: search_iterations of a unit is the number of search rounds it has
\* made, whether their queries failed or not: 0 until the first round, one
\* more than the number of write-and-grade rounds while the unit is at
\* write_section, and equal to it when the unit is back at search_web.
C26_IterationsCountSearchRounds ==
    \A i \in Idx :
        /\ search_iterations[i] = searchRounds[i]
        /\ pc[i] \in {"idle", "generate_queries", "write_final_sections"}
              => search_iterations[i] = 0
        /\ pc[i] = "write_section" => search_iterations[i] = writeRounds[i] + 1
        /\ pc[i] = "search_web" => search_iterations[i] = writeRounds[i]
        /\ queryFailed[i] => search_iterations[i] >= 1

\* C26 witness: a unit whose second search round had a failed query, with
\* one grade given so far.
C26_Witness ==
    \E i \in Idx :
        /\ queryFailed[i]
        /\ search_iterations[i] = 2
        /\ writeRounds[i] = 1
        /\ grade[i] = "fail"

\* C27: a write_section_node step whose grader returns fail with
\* search_iterations < max_search_depth sends the unit back to search_web
\* with search_queries equal to the grader's follow_up_queries, empty or
\* not, and adds nothing to completed_sections; the search count and the
\* source text are left as they were.
C27_FailBelowBoundSearchesAgain ==
    [][\A i \in Idx :
          (/\ pc[i] = "write_section"
           /\ pc'[i] # "write_section"
           /\ grade'[i] = "fail"
           /\ search_iterations[i] < max_search_depth)
          => /\ pc'[i] = "search_web"
             /\ search_queries'[i] = follow_up_queries'[i]
             /\ completed_sections' = completed_sections
             /\ phase' = "build_section_with_web_research"
             /\ search_iterations'[i] = search_iterations[i]
             /\ source_str'[i] = source_str[i]]_vars

\* C27 witness: a unit sent back to search_web by a fail whose follow-up
\* list was empty, after generated queries that were not.
C27_Witness ==
    \E i \in Idx :
        /\ pc[i] = "search_web"
        /\ grade[i] = "fail"
        /\ writeRounds[i] = 1
        /\ follow_up_queries[i] = <<>>
        /\ search_queries[i] = <<>>

\* C28: the gate decides three ways. On True it sends the research sections
\* (or goes to gather_completed_sections when there are none); on a text
\* that is not blank it goes back to generate_report_plan with the text
\* added at the end of feedback_on_report_plan, sending nothing; on every
\* other input (False, an empty or blank text, another type) it ends the run
\* with an error, sending nothing and adding no feedback.
C28_GateIsThreeWay ==
    [][\A fi \in GateInputs :
          human_feedback(fi) =>
              IF fi = Approve
              THEN /\ research_tasks' = SelectIdx(sections, 1, TRUE)
                   /\ phase' = (IF \E k \in Idx : sections[k].research
                                THEN "build_section_with_web_research"
                                ELSE "gather_completed_sections")
                   /\ \A k \in Idx :
                         pc'[k] = (IF sections[k].research THEN "generate_queries" ELSE "idle")
                   /\ feedback_on_report_plan' = feedback_on_report_plan
              ELSE IF fi = Revise
              THEN /\ phase' = "generate_report_plan"
                   /\ feedback_on_report_plan' = Append(feedback_on_report_plan, "f")
                   /\ research_tasks' = <<>>
                   /\ \A k \in Idx : pc'[k] = "idle"
              ELSE /\ phase' = "error"
                   /\ feedback_on_report_plan' = feedback_on_report_plan
                   /\ research_tasks' = <<>>
                   /\ \A k \in Idx : pc'[k] = "idle"]_vars

\* C28 witness: the gate has gone back to the plan generator with a second
\* feedback text added after the first.
C28_Witness ==
    /\ phase = "generate_report_plan"
    /\ feedback_on_report_plan = <<"f", "f">>
    /\ Len(sections) = 2


\* ------------------------------------------- the provider selection on its own
\* Provider identifiers a caller can hand over: the supported one, and others.
SearchApis == {"tavily", "Tavily", "duckduckgo"}

\* The nodes that call select_and_execute_search.
SearchCallers == {"generate_report_plan", "search_web"}

\* A call: the identifier, the queries and what the Tavily client would do for
\* each of them.
ProviderCalls ==
    {[search_api |-> a, queries |-> b.queries, outcomes |-> b.outcomes]
     : a \in SearchApis, b \in Batches}

InitProvider ==
    /\ phase \in SearchCallers
    /\ max_search_depth = 0
    /\ sections = <<>>
    /\ feedback_on_report_plan = <<>>
    /\ completed_sections = <<>>
    /\ report_sections_from_research = <<>>
    /\ final_report = NoReport
    /\ research_tasks = <<>>
    /\ final_tasks = <<>>
    /\ pc = <<>>
    /\ search_iterations = <<>>
    /\ search_queries = <<>>
    /\ source_str = <<>>
    /\ content = <<>>
    /\ context = <<>>
    /\ grade = <<>>
    /\ searchRounds = <<>>
    /\ writeRounds = <<>>
    /\ queryFailed = <<>>
    /\ follow_up_queries = <<>>
    /\ planCalls = 0
    /\ planFailed = FALSE
    /\ returned = NotReturned
    /\ search_in \in ProviderCalls
    /\ search_docs = <<>>
    /\ search_text = NoSource
    /\ search_stage = "called"

select_and_execute_search_falls_back ==
    /\ phase \in SearchCallers
    /\ search_stage = "called"
    /\ search_docs' = tavily_search_async(search_in.queries, search_in.outcomes)
    /\ search_text' = FormatSearch(search_docs')
    /\ search_stage' = "formatted"
    /\ phase' = IF search_in.search_api = "tavily" THEN phase ELSE "error"
    /\ UNCHANGED <<max_search_depth, reportVars, unitVars, search_in>>

\* select_and_execute_search lines 261-266, called at multi_agent.py line 88
\* (generate_report_plan) and line 203 (search_web_node), neither inside a try:
\* "tavily" runs the batch through tavily_search and the caller goes on; any
\* other identifier raises ValueError before a query is sent, and the
\* exception leaves the caller and the graph.
select_and_execute_search ==
    /\ phase \in SearchCallers
    /\ search_stage = "called"
    /\ IF search_in.search_api = "tavily"
       THEN /\ search_docs' = tavily_search_async(search_in.queries, search_in.outcomes)
            /\ search_text' = FormatSearch(search_docs')
            /\ search_stage' = "formatted"
            /\ phase' = phase
       ELSE /\ search_stage' = "raised"
            /\ phase' = "error"
            /\ UNCHANGED <<search_docs, search_text>>
    /\ UNCHANGED <<max_search_depth, reportVars, unitVars, search_in>>

NextProvider == select_and_execute_search \/ run_graph_for_streamlit

SpecProvider == InitProvider /\ [][NextProvider]_vars

\* C29: a call of select_and_execute_search with an identifier other than
\* "tavily" raises: no query is executed and no text is returned, the caller
\* (plan generator or search step) ends in error, and the run returns no report.
C29_OtherProviderRaises ==
    (search_in.search_api # "tavily") =>
        /\ search_stage \in {"called", "raised"}
        /\ search_docs = <<>>
        /\ search_text = NoSource
        /\ (search_stage = "raised" => phase = "error")
        /\ (returned.done => search_stage = "raised" /\ returned.report = NoReport)

C29_Witness ==
    /\ search_in.search_api # "tavily"
    /\ Len(search_in.queries) > 0
    /\ search_stage = "raised"
    /\ returned.done


\* The planned section names are pairwise distinct.
UniqueNames(secs) ==
    \A j, k \in 1..Len(secs) : secs[j].name = secs[k].name => j = k

\* C30: in a run that has reached the compiler with pairwise distinct planned
\* names, completed_sections has as many entries as the plan, names every
\* planned section, and every entry has a content set by a writer; in the
\* compiled report no block is one of the two placeholders.
C30_CompilerSeesEveryPlannedSection ==
    (phase \in {"compile_final_report", "END"} /\ UniqueNames(sections)) =>
        /\ Len(completed_sections) = Len(sections)
        /\ NamesOf(completed_sections) = NamesOf(sections)
        /\ \A k \in 1..Len(completed_sections) :
              completed_sections[k].content # NoContent
        /\ (phase = "END" =>
              /\ final_report.set
              /\ Len(final_report.parts) = Len(sections)
              /\ \A k \in 1..Len(final_report.parts) :
                    final_report.parts[k].body.kind = "content")

C30_Witness ==
    /\ phase = "END"
    /\ Len(sections) = 2
    /\ UniqueNames(sections)
    /\ sections[1].research
    /\ ~sections[2].research
    /\ final_report.set
    /\ returned.done


\* How often section i is among the Sends of the run.
DispatchedTimes(i) ==
    Cardinality({k \in 1..Len(research_tasks) : research_tasks[k] = i})
    + Cardinality({k \in 1..Len(final_tasks) : final_tasks[k] = i})

\* The entries of completed_sections that the unit of section i has emitted
\* (a content names the unit whose writer produced it).
EntriesOf(i) ==
    {k \in 1..Len(completed_sections) : completed_sections[k].content.by = i}

AfterResearchDispatch ==
    {"build_section_with_web_research", "gather_completed_sections",
     "write_final_sections", "compile_final_report", "END"}

AfterFinalDispatch == {"write_final_sections", "compile_final_report", "END"}

\* Dispatch and emission, as far as one state shows them.
DispatchedAndEmittedOnce ==
    \A i \in Idx :
        /\ DispatchedTimes(i) <= 1
        /\ (i \in Range(research_tasks) => sections[i].research)
        /\ (i \in Range(final_tasks) => ~sections[i].research)
        /\ (phase \in AfterResearchDispatch /\ sections[i].research
                => i \in Range(research_tasks))
        /\ (phase \in AfterFinalDispatch /\ ~sections[i].research
                => i \in Range(final_tasks))
        /\ Cardinality(EntriesOf(i)) <= 1
        /\ \A k \in EntriesOf(i) :
              /\ pc[i] = "done"
              /\ completed_sections[k] = Emitted(i)
        /\ (phase \in {"compile_final_report", "END"}
                => Cardinality(EntriesOf(i)) = 1)

\* Dispatch, as far as one step shows it: the Sends are made once, and a unit
\* starts from idle only.
DispatchedInOneStep ==
    /\ (research_tasks # <<>> => research_tasks' = research_tasks)
    /\ (final_tasks # <<>> => final_tasks' = final_tasks)
    /\ \A i \in Idx :
          (pc'[i] # pc[i] /\ pc'[i] \in {"generate_queries", "write_final_sections"})
              => /\ pc[i] = "idle"
                 /\ DispatchedTimes(i)' = 1

\* C31: every planned section is sent to exactly one unit, once in the run (a
\* research unit for research = true, a final writer otherwise), and every
\* unit emits exactly one entry of completed_sections, its section with its
\* last content, never before it has finished.
C31_DispatchedOnceEmittedOnce ==
    []DispatchedAndEmittedOnce /\ [][DispatchedInOneStep]_vars

C31_Witness ==
    /\ phase = "END"
    /\ returned.done
    /\ Len(sections) = 3
    /\ \E i, j \in Idx : sections[i].research /\ ~sections[j].research
    /\ \E i \in Idx : writeRounds[i] = 2
    /\ \A i \in Idx : DispatchedTimes(i) = 1 /\ Cardinality(EntriesOf(i)) = 1


\* The texts that the search of the unit's current queries can return in the
\* given round.
ResultsOfRound(i, round) ==
    {tavily_search(search_queries[i], outs) :
        outs \in [1..Len(search_queries[i]) -> RunOutcomes(round)]}

\* C32: what write_section_node reads in round k (the unit is at
\* write_section after its k-th search): source_str is a result of the k-th
\* search alone, with no source of an earlier round, and section.content is
\* the content of the writer call before, none in the first round.
C32_SourceOfThisRoundOnly ==
    \A i \in Idx :
        (phase = "build_section_with_web_research" /\ pc[i] = "write_section") =>
            /\ source_str[i] \in ResultsOfRound(i, searchRounds[i])
            /\ \A k \in 1..Len(source_str[i].sources) :
                  source_str[i].sources[k] = RoundUrl(searchRounds[i])
            /\ content[i] = IF searchRounds[i] = 1 THEN NoContent
                            ELSE [by |-> i, round |-> searchRounds[i] - 1]

C32_Witness ==
    \E i \in Idx :
        /\ phase = "build_section_with_web_research"
        /\ pc[i] = "write_section"
        /\ searchRounds[i] = 2
        /\ source_str[i].sources = <<RoundUrl(2)>>
        /\ content[i] = [by |-> i, round |-> 1]

====
